---------------------------- MODULE Spec2Model ----------------------------
(***************************************************************************)
(* Model of the Kiwi end-to-end test framework:                            *)
(*   config.py                      environment-file search, typed getters *)
(*   tests/pages/home_page.py       the HomePage page object               *)
(*   tests/steps/..._steps.py       the parameterized departure-time step  *)
(*   conftest.py                    the page fixture and the failure hook  *)
(*                                                                         *)
(* Python strings whose characters matter (the raw values handed to the    *)
(* typed getters) are sequences of one-character strings; names and paths  *)
(* are TLA+ strings.  An optional value (os.getenv's None) is a record     *)
(* with a "set" flag.                                                      *)
(***************************************************************************)
EXTENDS Integers, Sequences, FiniteSets, TLC

VARIABLES
    environ,            \* os.environ: TEST_ENV, HEADLESS, DEFAULT_TIMEOUT
    files,              \* the paths that exist in the working directory
    dotenv_calls,       \* the load_dotenv calls issued so far, in order
    default,            \* the default handed to the typed getter
    parsed,             \* the typed getter's outcome: value and warning
    page_state,         \* what the browser page shows to the locators
    last,               \* the latest HomePage or step call and how it ended
    prev,               \* the call before it: the same method? did it return?
    _test_failed_page,  \* conftest's module global: a page, or NoPage
    run,                \* the test being run and how far it has come
    report,             \* the report of the phase that just ended
    hook,               \* what pytest_runtest_makereport did with it
    before              \* how the previous test went

cfgvars == <<environ, files, dotenv_calls, default, parsed>>

pagevars == <<page_state, last, prev>>

hookvars == <<_test_failed_page, run, report, hook, before>>

vars == <<cfgvars, pagevars, hookvars>>

(***************************************************************************)
(* Optional values.                                                        *)
(***************************************************************************)
None == [set |-> FALSE, val |-> <<>>]

Some(v) == [set |-> TRUE, val |-> v]

\* Python truthiness of an optional string: None and "" are falsy.
Truthy(o) == o.set /\ o.val # ""

(***************************************************************************)
(* config.py: _load_environment                                            *)
(***************************************************************************)

\* The descriptor of a load_dotenv call: a path, or the default discovery.
DotenvOf(path) == [dotenv_path |-> Some(path), override |-> TRUE]

DotenvDefault == [dotenv_path |-> None, override |-> FALSE]

candidate_paths_swapped(test_env) ==
    <<"env/test.env", "test.env", ".env">>
    \o (IF Truthy(test_env)
        THEN <<"env/" \o test_env.val \o ".env", test_env.val \o ".env">>
        ELSE <<>>)

\* The candidate list built at config.py:44-60.
candidate_paths(test_env) ==
    (IF Truthy(test_env)
     THEN <<"env/" \o test_env.val \o ".env", test_env.val \o ".env">>
     ELSE <<>>)
    \o <<"env/test.env", "test.env", ".env">>

\* The loop at config.py:62-68: load the first existing path and return;
\* when the loop ends without a hit, the default search.
RECURSIVE LoadFirst(_, _)
LoadFirst(paths, existing) ==
    IF paths = <<>> THEN <<DotenvDefault>>
    ELSE IF Head(paths) \in existing THEN <<DotenvOf(Head(paths))>>
    ELSE LoadFirst(Tail(paths), existing)

_load_environment ==
    /\ dotenv_calls = <<>>
    /\ dotenv_calls' =
           LoadFirst(candidate_paths(environ["TEST_ENV"]), files)
    /\ UNCHANGED <<environ, files, default, parsed, pagevars, hookvars>>

(***************************************************************************)
(* config.py: _get_env_bool                                                *)
(***************************************************************************)
IsSpace(c) == c \in {" ", "\t", "\n"}

RECURSIVE LStrip(_)
LStrip(s) == IF s # <<>> /\ IsSpace(Head(s)) THEN LStrip(Tail(s)) ELSE s

RECURSIVE RStrip(_)
RStrip(s) ==
    IF s # <<>> /\ IsSpace(s[Len(s)])
    THEN RStrip(SubSeq(s, 1, Len(s) - 1))
    ELSE s

\* str.strip(): leading and trailing whitespace removed.
strip(s) == RStrip(LStrip(s))

Uppers == <<"A", "E", "F", "L", "N", "O", "R", "S", "T", "U", "Y", "X">>

Lowers == <<"a", "e", "f", "l", "n", "o", "r", "s", "t", "u", "y", "x">>

LowerChar(c) ==
    IF \E i \in 1..Len(Uppers) : Uppers[i] = c
    THEN Lowers[CHOOSE i \in 1..Len(Uppers) : Uppers[i] = c]
    ELSE c

UpperChar(c) ==
    IF \E i \in 1..Len(Lowers) : Lowers[i] = c
    THEN Uppers[CHOOSE i \in 1..Len(Lowers) : Lowers[i] = c]
    ELSE c

\* str.lower(): every character lowered.
lower(s) == [i \in 1..Len(s) |-> LowerChar(s[i])]

TrueTokens == {<<"1">>, <<"t", "r", "u", "e">>, <<"y", "e", "s">>, <<"o", "n">>}

FalseTokens ==
    {<<"0">>, <<"f", "a", "l", "s", "e">>, <<"n", "o">>, <<"o", "f", "f">>}

Result(v, w) == [value |-> v, warned |-> w]

_get_env_bool_nostrip(raw_value, dflt) ==
    IF ~raw_value.set THEN Result(dflt, FALSE)
    ELSE LET normalized == lower(raw_value.val)
         IN  IF normalized \in TrueTokens THEN Result(TRUE, FALSE)
             ELSE IF normalized \in FalseTokens THEN Result(FALSE, FALSE)
             ELSE Result(dflt, TRUE)

_get_env_bool(raw_value, dflt) ==
    IF ~raw_value.set THEN Result(dflt, FALSE)
    ELSE LET normalized == lower(strip(raw_value.val))
         IN  IF normalized \in TrueTokens THEN Result(TRUE, FALSE)
             ELSE IF normalized \in FalseTokens THEN Result(FALSE, FALSE)
             ELSE Result(dflt, TRUE)

\* Config.HEADLESS = _get_env_bool("HEADLESS", default)
GetHeadless ==
    /\ ~parsed.set
    /\ parsed' = Some(_get_env_bool(environ["HEADLESS"], default))
    /\ UNCHANGED <<environ, files, dotenv_calls, default, pagevars, hookvars>>

(***************************************************************************)
(* config.py: _get_env_int                                                 *)
(***************************************************************************)
Digits == <<"0", "1", "2", "3", "4", "5", "6", "7", "8", "9">>

IsDigit(c) == \E i \in 1..10 : Digits[i] = c

DigitVal(c) == (CHOOSE i \in 1..10 : Digits[i] = c) - 1

\* The digit scan of Python's int(str) in base 10: digits, with single
\* underscores allowed between two digits.  seen is what the scan last read.
RECURSIVE ParseDigits(_, _, _)
ParseDigits(s, acc, seen) ==
    IF s = <<>>
    THEN IF seen = "digit" THEN Some(acc) ELSE None
    ELSE IF IsDigit(Head(s))
    THEN ParseDigits(Tail(s), acc * 10 + DigitVal(Head(s)), "digit")
    ELSE IF Head(s) = "_" /\ seen = "digit"
    THEN ParseDigits(Tail(s), acc, "underscore")
    ELSE None

\* int(raw_value): surrounding whitespace stripped, an optional sign, then
\* the digit scan.  None stands for ValueError.
int(s) ==
    LET t == strip(s)
        signed == t # <<>> /\ Head(t) \in {"+", "-"}
        body == IF signed THEN Tail(t) ELSE t
        mag == ParseDigits(body, 0, "start")
    IN  IF ~mag.set THEN None
        ELSE IF signed /\ Head(t) = "-" THEN Some(0 - mag.val)
        ELSE Some(mag.val)

_get_env_int_silent(raw_value, dflt) ==
    IF ~raw_value.set THEN Result(dflt, FALSE)
    ELSE LET r == int(raw_value.val)
         IN  IF r.set THEN Result(r.val, FALSE) ELSE Result(dflt, FALSE)

_get_env_int(raw_value, dflt) ==
    IF ~raw_value.set THEN Result(dflt, FALSE)
    ELSE LET r == int(raw_value.val)
         IN  IF r.set THEN Result(r.val, FALSE) ELSE Result(dflt, TRUE)

\* Config.DEFAULT_TIMEOUT = _get_env_int("DEFAULT_TIMEOUT", default)
GetDefaultTimeout ==
    /\ ~parsed.set
    /\ parsed' = Some(_get_env_int(environ["DEFAULT_TIMEOUT"], default))
    /\ UNCHANGED <<environ, files, dotenv_calls, default, pagevars, hookvars>>

(***************************************************************************)
(* test_data/airports.py                                                   *)
(***************************************************************************)
AIRPORT_MAPPINGS ==
    [code \in {"RTM", "MAD"} |->
        IF code = "RTM" THEN "Rome, Italy" ELSE "Madrid, Spain"]

(***************************************************************************)
(* tests/pages/home_page.py: HomePage                                      *)
(*                                                                         *)
(* A method is an operator from the page it is called on, its arguments    *)
(* and the number of the UI call that raises (0: none does) to how the     *)
(* call ends: outcome "returned", "ValueError" or "PlaywrightError", the   *)
(* return value, the UI calls issued (a raising call is the last one), the *)
(* lines printed, and the page afterwards.  A UI call that raises leaves   *)
(* the page as it was.                                                     *)
(***************************************************************************)
Ui(call, target, text, days) ==
    [call |-> call, target |-> target, text |-> text, days |-> days]

Click(target) == Ui("click", target, "", 0)

IsVisible(target) == Ui("is_visible", target, "", 0)

\* The page before navigation: nothing to see.
BlankPage ==
    [popup |-> FALSE, dep_clear |-> FALSE, arr_clear |-> FALSE,
     checked |-> FALSE]

\* What goto can bring up: the consent popup or not, the accommodation box
\* checked or not, no airport chosen.
FreshPages ==
    {[popup |-> p, dep_clear |-> FALSE, arr_clear |-> FALSE, checked |-> c] :
        p \in BOOLEAN, c \in BOOLEAN}

Raises(calls, fault) == fault \in 1..Len(calls)

\* The calls issued when call number fault raises.
Issued(calls, fault) ==
    IF Raises(calls, fault) THEN SubSeq(calls, 1, fault) ELSE calls

\* The calls that completed.
Completed(calls, fault) ==
    IF Raises(calls, fault) THEN SubSeq(calls, 1, fault - 1) ELSE calls

Did(calls, fault, c) ==
    \E k \in 1..Len(Completed(calls, fault)) : calls[k] = c

Ends(outcome, ret, issued, log, post) ==
    [outcome |-> outcome, ret |-> ret, issued |-> issued, log |-> log,
     post |-> post]

\* A method body with no try block: a raising UI call propagates.
Plain(calls, fault, post) ==
    Ends(IF Raises(calls, fault) THEN "PlaywrightError" ELSE "returned",
         "None", Issued(calls, fault), <<>>, post)

\* A method body whose UI errors are caught and dropped.
Swallowed(calls, fault, post) ==
    Ends("returned", "None", Issued(calls, fault), <<>>, post)

accept_privacy_consent_calls(st) ==
    <<IsVisible("privacy_popup_accept_button")>>
    \o (IF st.popup THEN <<Click("privacy_popup_accept_button")>> ELSE <<>>)

accept_privacy_consent_post(st, fault) ==
    IF Did(accept_privacy_consent_calls(st), fault,
           Click("privacy_popup_accept_button"))
    THEN [st EXCEPT !.popup = FALSE]
    ELSE st

accept_privacy_consent_notry(st, fault) ==
    LET calls == accept_privacy_consent_calls(st)
    IN  Ends(IF Raises(calls, fault) THEN "PlaywrightError" ELSE "returned",
             IF Raises(calls, fault) THEN "None"
             ELSE IF st.popup THEN "True" ELSE "False",
             Issued(calls, fault),
             IF ~Raises(calls, fault) /\ ~st.popup
             THEN <<"Privacy consent popup not visible">> ELSE <<>>,
             accept_privacy_consent_post(st, fault))

accept_privacy_consent(st, fault) ==
    LET calls == accept_privacy_consent_calls(st)
    IN  IF Raises(calls, fault)
        THEN Ends("returned", "False", Issued(calls, fault),
                  <<"Error while accepting privacy consent">>,
                  accept_privacy_consent_post(st, fault))
        ELSE IF st.popup
        THEN Ends("returned", "True", calls, <<>>,
                  accept_privacy_consent_post(st, fault))
        ELSE Ends("returned", "False", calls,
                  <<"Privacy consent popup not visible">>, st)

navigate_calls ==
    <<Ui("goto", "page", "BASE_URL", 0),
      Ui("wait_for_load_state", "page", "load", 0)>>

\* goto, the wait for "load", then accept_privacy_consent on the page that
\* goto brought up; its result is dropped.
navigate(st, fault, fresh) ==
    IF Raises(navigate_calls, fault)
    THEN Plain(navigate_calls, fault, IF fault = 1 THEN st ELSE fresh)
    ELSE LET consent == accept_privacy_consent(fresh, fault - 2)
         IN  Ends(consent.outcome, "None", navigate_calls \o consent.issued,
                  consent.log, consent.post)

select_one_way_trip_calls ==
    <<Click("trip_type_dropdown"), Click("one_way_option_in_dropdown")>>

select_one_way_trip_soft(st, fault) ==
    Swallowed(select_one_way_trip_calls, fault, st)

select_one_way_trip(st, fault) == Plain(select_one_way_trip_calls, fault, st)

\* The UI calls of set_departure_airport and set_arrival_airport once the
\* code is accepted: the clear button if it shows, the input, the
\* suggestion named after the mapped airport.
airport_calls(clear, input, shows_clear, airport_code) ==
    <<IsVisible(clear)>>
    \o (IF shows_clear THEN <<Click(clear)>> ELSE <<>>)
    \o <<Click(input),
         Ui("fill", input, airport_code, 0),
         Click(AIRPORT_MAPPINGS[airport_code] \o " Add")>>

\* Whether the clear button shows afterwards: gone once clicked, back once
\* the suggestion is clicked.
airport_clear_after(calls, fault, clear, shows_clear) ==
    IF ~Raises(calls, fault) THEN TRUE
    ELSE IF Did(calls, fault, Click(clear)) THEN FALSE
    ELSE shows_clear

set_departure_airport_latecheck(st, airport_code, fault) ==
    LET clear == "clear_button_on_departure"
        head == <<IsVisible(clear)>>
                \o (IF st.dep_clear THEN <<Click(clear)>> ELSE <<>>)
    IN  IF airport_code \notin DOMAIN AIRPORT_MAPPINGS
        THEN IF Raises(head, fault)
             THEN Plain(head, fault, st)
             ELSE Ends("ValueError", "None", head, <<>>,
                       [st EXCEPT !.dep_clear = FALSE])
        ELSE LET calls == airport_calls(clear, "from_airport_input",
                                        st.dep_clear, airport_code)
             IN  Plain(calls, fault,
                       [st EXCEPT !.dep_clear =
                           airport_clear_after(calls, fault, clear,
                                               st.dep_clear)])

set_departure_airport(st, airport_code, fault) ==
    IF airport_code \notin DOMAIN AIRPORT_MAPPINGS
    THEN Ends("ValueError", "None", <<>>, <<>>, st)
    ELSE LET clear == "clear_button_on_departure"
             calls == airport_calls(clear, "from_airport_input",
                                    st.dep_clear, airport_code)
         IN  Plain(calls, fault,
                   [st EXCEPT !.dep_clear =
                       airport_clear_after(calls, fault, clear,
                                           st.dep_clear)])

set_arrival_airport(st, airport_code, fault) ==
    IF airport_code \notin DOMAIN AIRPORT_MAPPINGS
    THEN Ends("ValueError", "None", <<>>, <<>>, st)
    ELSE LET clear == "clear_button_on_arrival"
             calls == airport_calls(clear, "to_airport_input",
                                    st.arr_clear, airport_code)
         IN  Plain(calls, fault,
                   [st EXCEPT !.arr_clear =
                       airport_clear_after(calls, fault, clear,
                                           st.arr_clear)])

\* The date picker, the calendar cell of today + total_days, the done
\* button.  days is the offset from today of the cell's data-value.
set_departure_date_calls(total_days) ==
    <<Click("departure_date_input"),
      Ui("click", "CalendarDay", "data-value", total_days),
      Click("SearchFormDoneButton")>>

set_departure_date(st, total_days, fault) ==
    Plain(set_departure_date_calls(total_days), fault, st)

uncheck_accommodation_option_calls(st) ==
    <<Ui("is_checked", "accommodation_checkbox", "", 0)>>
    \o (IF st.checked THEN <<Click("checkbox_icon")>> ELSE <<>>)

uncheck_accommodation_option_always(st, fault) ==
    LET calls == <<Ui("is_checked", "accommodation_checkbox", "", 0),
                   Click("checkbox_icon")>>
    IN  Plain(calls, fault,
              IF Did(calls, fault, Click("checkbox_icon"))
              THEN [st EXCEPT !.checked = ~st.checked] ELSE st)

\* A completed click on the icon toggles the checkbox.
uncheck_accommodation_option(st, fault) ==
    LET calls == uncheck_accommodation_option_calls(st)
    IN  Plain(calls, fault,
              IF Did(calls, fault, Click("checkbox_icon"))
              THEN [st EXCEPT !.checked = ~st.checked] ELSE st)

click_search_button(st, fault) == Plain(<<Click("search_button")>>, fault, st)

(***************************************************************************)
(* tests/steps/test_basic_search_steps.py: set_departure_time              *)
(***************************************************************************)
\* The day offset of a value and a unit; None stands for the ValueError.
total_days_weeks_only(value, unit) ==
    IF unit = "weeks" THEN Some(value * 7)
    ELSE IF unit = "day" \/ unit = "days" \/ unit = "week" THEN Some(value)
    ELSE None

total_days_of(value, unit) ==
    IF unit = "week" \/ unit = "weeks" THEN Some(value * 7)
    ELSE IF unit = "day" \/ unit = "days" THEN Some(value)
    ELSE None

\* The step: po lists the HomePage methods it calls, with their argument.
set_departure_time(st, value, unit, fault) ==
    LET total == total_days_of(value, unit)
    IN  IF ~total.set
        THEN [po |-> <<>>, end |-> Ends("ValueError", "None", <<>>, <<>>, st)]
        ELSE [po |-> <<[method |-> "set_departure_date", days |-> total.val]>>,
              end |-> set_departure_date(st, total.val, fault)]

(***************************************************************************)
(* Calls on the page, one action each.                                     *)
(***************************************************************************)
NoCall ==
    [op |-> "", code |-> "", value |-> 0, unit |-> "", fault |-> 0,
     pre |-> BlankPage, outcome |-> "", ret |-> "None", issued |-> <<>>,
     log |-> <<>>, po |-> <<>>]

PageIdle ==
    /\ page_state = BlankPage
    /\ last = NoCall
    /\ prev = [same |-> FALSE, returned |-> FALSE]

\* The bookkeeping of a call op that ended as e.
Called(op, code, value, unit, fault, po, e) ==
    /\ page_state' = e.post
    /\ last' = [op |-> op, code |-> code, value |-> value, unit |-> unit,
                fault |-> fault, pre |-> page_state, outcome |-> e.outcome,
                ret |-> e.ret, issued |-> e.issued, log |-> e.log, po |-> po]
    /\ prev' = [same |-> last.op = op, returned |-> last.outcome = "returned"]
    /\ UNCHANGED <<cfgvars, hookvars>>

AirportCodes == {"RTM", "MAD", "ZZZ"}

Units == {"day", "days", "week", "weeks", "month", "Weeks"}

MaxValue == 2

AcceptPrivacyConsent ==
    \E fault \in 0..Len(accept_privacy_consent_calls(page_state)) :
        Called("accept_privacy_consent", "", 0, "", fault, <<>>,
               accept_privacy_consent(page_state, fault))

Navigate ==
    \E fresh \in FreshPages :
        \E fault \in 0..(2 + Len(accept_privacy_consent_calls(fresh))) :
            Called("navigate", "", 0, "", fault, <<>>,
                   navigate(page_state, fault, fresh))

SelectOneWayTrip ==
    \E fault \in 0..Len(select_one_way_trip_calls) :
        Called("select_one_way_trip", "", 0, "", fault, <<>>,
               select_one_way_trip(page_state, fault))

SetDepartureAirport ==
    \E code \in AirportCodes :
        \E fault \in 0..(IF code \in DOMAIN AIRPORT_MAPPINGS
                         THEN IF page_state.dep_clear THEN 5 ELSE 4
                         ELSE 2) :
            Called("set_departure_airport", code, 0, "", fault, <<>>,
                   set_departure_airport(page_state, code, fault))

SetArrivalAirport ==
    \E code \in AirportCodes :
        \E fault \in 0..(IF code \in DOMAIN AIRPORT_MAPPINGS
                         THEN IF page_state.arr_clear THEN 5 ELSE 4
                         ELSE 2) :
            Called("set_arrival_airport", code, 0, "", fault, <<>>,
                   set_arrival_airport(page_state, code, fault))

SetDepartureDate ==
    \E total_days \in {0, 7 * MaxValue} :
        \E fault \in 0..Len(set_departure_date_calls(total_days)) :
            Called("set_departure_date", "", total_days, "", fault, <<>>,
                   set_departure_date(page_state, total_days, fault))

UncheckAccommodationOption ==
    \E fault \in 0..2 :
        Called("uncheck_accommodation_option", "", 0, "", fault, <<>>,
               uncheck_accommodation_option(page_state, fault))

ClickSearchButton ==
    \E fault \in 0..1 :
        Called("click_search_button", "", 0, "", fault, <<>>,
               click_search_button(page_state, fault))

StepSetDepartureTime ==
    \E value \in 0..MaxValue, unit \in Units, fault \in 0..3 :
        LET r == set_departure_time(page_state, value, unit, fault)
        IN  Called("set_departure_time", "", value, unit, fault, r.po, r.end)

NextPage ==
    \/ AcceptPrivacyConsent
    \/ Navigate
    \/ SelectOneWayTrip
    \/ SetDepartureAirport
    \/ SetArrivalAirport
    \/ SetDepartureDate
    \/ UncheckAccommodationOption
    \/ ClickSearchButton
    \/ StepSetDepartureTime

(***************************************************************************)
(* conftest.py: the page fixture and pytest_runtest_makereport, under      *)
(* pytest's protocol for one test: the setup phase (fixtures up to their   *)
(* yield), then the call phase if setup passed, then the teardown phase    *)
(* (the code after each yield); a report is made as each phase ends.       *)
(* Test number n drives the page numbered n.                               *)
(***************************************************************************)
NoPage == 0

MaxTests == 3

NoReport == [when |-> "", outcome |-> ""]

NoHook ==
    [saw |-> NoReport, raised |-> FALSE, page |-> NoPage, shot |-> "",
     attach |-> "", log |-> ""]

HookIdle ==
    /\ _test_failed_page = NoPage
    /\ run = [test |-> 0, pc |-> "idle", uses_page |-> FALSE,
              fixture_up |-> FALSE, failed |-> ""]
    /\ report = NoReport
    /\ hook = NoHook
    /\ before = [uses_page |-> FALSE, failed |-> ""]

\* pytest picks the next test; it may or may not request the page fixture.
StartTest ==
    /\ run.pc = "idle"
    /\ run.test < MaxTests
    /\ \E u \in BOOLEAN :
           run' = [test |-> run.test + 1, pc |-> "setup", uses_page |-> u,
                   fixture_up |-> FALSE, failed |-> ""]
    /\ report' = NoReport
    /\ hook' = NoHook
    /\ UNCHANGED <<_test_failed_page, before, cfgvars, pagevars>>

page_setup_local ==
    /\ run.pc = "setup" /\ run.uses_page /\ ~run.fixture_up
    /\ run' = [run EXCEPT !.fixture_up = TRUE]
    /\ UNCHANGED <<_test_failed_page, report, hook, before, cfgvars, pagevars>>

\* The page fixture up to its yield: the global takes the test's page.
page_setup ==
    /\ run.pc = "setup" /\ run.uses_page /\ ~run.fixture_up
    /\ _test_failed_page' = run.test
    /\ run' = [run EXCEPT !.fixture_up = TRUE]
    /\ UNCHANGED <<report, hook, before, cfgvars, pagevars>>

\* The setup phase ends: passed once every requested fixture is up, failed
\* when a fixture before or after the page fixture raised.
SetupEnds ==
    /\ run.pc = "setup"
    /\ \E o \in {"passed", "failed"} :
           /\ o = "passed" => (run.uses_page => run.fixture_up)
           /\ report' = [when |-> "setup", outcome |-> o]
    /\ run' = [run EXCEPT !.pc = "report"]
    /\ hook' = NoHook
    /\ UNCHANGED <<_test_failed_page, before, cfgvars, pagevars>>

\* The test function runs.
CallEnds ==
    /\ run.pc = "call"
    /\ \E o \in {"passed", "failed"} :
           report' = [when |-> "call", outcome |-> o]
    /\ run' = [run EXCEPT !.pc = "report"]
    /\ hook' = NoHook
    /\ UNCHANGED <<_test_failed_page, before, cfgvars, pagevars>>

page_teardown_keeps ==
    /\ run.pc = "teardown" /\ run.fixture_up
    /\ run' = [run EXCEPT !.fixture_up = FALSE]
    /\ UNCHANGED <<_test_failed_page, report, hook, before, cfgvars, pagevars>>

\* The page fixture after its yield: the global is cleared.
page_teardown ==
    /\ run.pc = "teardown" /\ run.fixture_up
    /\ _test_failed_page' = NoPage
    /\ run' = [run EXCEPT !.fixture_up = FALSE]
    /\ UNCHANGED <<report, hook, before, cfgvars, pagevars>>

\* The teardown phase ends once every fixture that was up is torn down.
TeardownEnds ==
    /\ run.pc = "teardown" /\ ~run.fixture_up
    /\ \E o \in {"passed", "failed"} :
           report' = [when |-> "teardown", outcome |-> o]
    /\ run' = [run EXCEPT !.pc = "report"]
    /\ hook' = NoHook
    /\ UNCHANGED <<_test_failed_page, before, cfgvars, pagevars>>

makereport_notry(rep, page, shot, attach) ==
    IF rep.when = "call" /\ rep.outcome = "failed"
    THEN IF page # NoPage
         THEN IF shot = "raises"
              THEN [saw |-> rep, raised |-> TRUE, page |-> page,
                    shot |-> "raises", attach |-> "", log |-> ""]
              ELSE IF attach = "raises"
              THEN [saw |-> rep, raised |-> TRUE, page |-> page,
                    shot |-> "ok", attach |-> "raises", log |-> ""]
              ELSE [saw |-> rep, raised |-> FALSE, page |-> page,
                    shot |-> "ok", attach |-> "ok",
                    log |-> "Screenshot captured and attached"]
         ELSE [saw |-> rep, raised |-> FALSE, page |-> NoPage, shot |-> "",
               attach |-> "", log |-> "Page object not available"]
    ELSE [NoHook EXCEPT !.saw = rep]

\* The hook's body after its yield, on report rep with the global holding
\* page; shot and attach say how page.screenshot and allure.attach end.
makereport(rep, page, shot, attach) ==
    IF rep.when = "call" /\ rep.outcome = "failed"
    THEN IF page # NoPage
         THEN IF shot = "raises"
              THEN [saw |-> rep, raised |-> FALSE, page |-> page,
                    shot |-> "raises", attach |-> "",
                    log |-> "Failed to capture screenshot"]
              ELSE IF attach = "raises"
              THEN [saw |-> rep, raised |-> FALSE, page |-> page,
                    shot |-> "ok", attach |-> "raises",
                    log |-> "Failed to capture screenshot"]
              ELSE [saw |-> rep, raised |-> FALSE, page |-> page,
                    shot |-> "ok", attach |-> "ok",
                    log |-> "Screenshot captured and attached"]
         ELSE [saw |-> rep, raised |-> FALSE, page |-> NoPage, shot |-> "",
               attach |-> "", log |-> "Page object not available"]
    ELSE [NoHook EXCEPT !.saw = rep]

\* The phase that follows a report.
NextPc(rep) ==
    IF rep.when = "setup"
    THEN IF rep.outcome = "passed" THEN "call" ELSE "teardown"
    ELSE IF rep.when = "call" THEN "teardown"
    ELSE "idle"

\* The first phase of the test that failed, if any.
Failed(b, rep) ==
    IF rep.outcome = "failed" /\ b = "" THEN rep.when ELSE b

\* pytest_runtest_makereport on the report of the phase that just ended; it
\* leaves the report as it is.
pytest_runtest_makereport ==
    /\ run.pc = "report"
    /\ \E shot \in {"ok", "raises"}, attach \in {"ok", "raises"} :
           hook' = makereport(report, _test_failed_page, shot, attach)
    /\ run' = [run EXCEPT !.pc = NextPc(report),
                          !.failed = Failed(run.failed, report)]
    /\ before' =
           IF report.when = "teardown"
           THEN [uses_page |-> run.uses_page,
                 failed |-> Failed(run.failed, report)]
           ELSE before
    /\ UNCHANGED <<_test_failed_page, report, cfgvars, pagevars>>

NextHarness ==
    \/ StartTest
    \/ page_setup
    \/ SetupEnds
    \/ CallEnds
    \/ page_teardown
    \/ TeardownEnds
    \/ pytest_runtest_makereport

(***************************************************************************)
(* Inputs                                                                  *)
(***************************************************************************)
EnvNames == {"TEST_ENV", "HEADLESS", "DEFAULT_TIMEOUT"}

Environ(test_env, headless, timeout) ==
    [n \in EnvNames |->
        CASE n = "TEST_ENV" -> test_env
          [] n = "HEADLESS" -> headless
          [] OTHER -> timeout]

TestEnvValues == {None, Some(""), Some("staging"), Some("test")}

EnvFiles ==
    {"env/staging.env", "staging.env", "env/test.env", "test.env", ".env"}

InitLoadEnv ==
    /\ \E t \in TestEnvValues : environ = Environ(t, None, None)
    /\ files \in SUBSET EnvFiles
    /\ dotenv_calls = <<>>
    /\ default = FALSE
    /\ parsed = None
    /\ PageIdle
    /\ HookIdle

SpecLoadEnv == InitLoadEnv /\ [][_load_environment]_vars

\* Words that are not boolean tokens, some of them near misses.
OtherTokens ==
    {<<>>, <<"2">>, <<"1", "0">>, <<"t">>, <<"y">>, <<"t", "r", "u">>,
     <<"o", " ", "n">>, <<"n", "o", "n", "e">>, <<"o", "f">>,
     <<"t", "r", "u", "e", "x">>, <<"x">>}

MaxPad == 1

RECURSIVE Pads(_)
Pads(n) ==
    IF n = 0 THEN {<<>>}
    ELSE Pads(n - 1) \cup
         {<<c>> \o p : c \in {" ", "\t", "\n"}, p \in {q \in Pads(n - 1) : Len(q) = n - 1}}

\* A token with the characters at the positions of mask in upper case.
Cased(tok, mask) ==
    [i \in 1..Len(tok) |-> IF i \in mask THEN UpperChar(tok[i]) ELSE tok[i]]

BoolRawValues ==
    {None} \cup
    {Some(l \o Cased(tok, mask) \o r) :
        l \in Pads(MaxPad), r \in Pads(MaxPad),
        tok \in TrueTokens \cup FalseTokens \cup OtherTokens,
        mask \in SUBSET (1..5)}

InitEnvBool ==
    /\ \E raw \in BoolRawValues : environ = Environ(None, raw, None)
    /\ files = {}
    /\ dotenv_calls = <<>>
    /\ default \in BOOLEAN
    /\ parsed = None
    /\ PageIdle
    /\ HookIdle

SpecEnvBool == InitEnvBool /\ [][GetHeadless]_vars

\* The default of Config.DEFAULT_TIMEOUT.
DEFAULT_TIMEOUT_default == 15000

MaxIntLen == 4

IntChars == {"0", "1", "7", "-", "+", " ", "_", "a"}

RECURSIVE Strings(_, _)
Strings(chars, n) ==
    IF n = 0 THEN {<<>>}
    ELSE LET shorter == Strings(chars, n - 1)
         IN  shorter \cup
             {<<c>> \o t : c \in chars, t \in {u \in shorter : Len(u) = n - 1}}

IntRawValues == {None} \cup {Some(t) : t \in Strings(IntChars, MaxIntLen)}

InitEnvInt ==
    /\ \E raw \in IntRawValues : environ = Environ(None, None, raw)
    /\ files = {}
    /\ dotenv_calls = <<>>
    /\ default \in {DEFAULT_TIMEOUT_default, 0 - 1}
    /\ parsed = None
    /\ PageIdle
    /\ HookIdle

SpecEnvInt == InitEnvInt /\ [][GetDefaultTimeout]_vars

CfgIdle ==
    /\ environ = Environ(None, None, None)
    /\ files = {}
    /\ dotenv_calls = <<>>
    /\ default = FALSE
    /\ parsed = None

InitPage == CfgIdle /\ PageIdle /\ HookIdle

SpecPage == InitPage /\ [][NextPage]_vars

InitHarness == CfgIdle /\ PageIdle /\ HookIdle

SpecHarness == InitHarness /\ [][NextHarness]_vars

(***************************************************************************)
(* C1                                                                      *)
(***************************************************************************)
\* The search order as the documentation states it.
DocumentedOrder(t) ==
    IF t.set /\ t.val # ""
    THEN <<"env/" \o t.val \o ".env", t.val \o ".env",
           "env/test.env", "test.env", ".env">>
    ELSE <<"env/test.env", "test.env", ".env">>

\* C1: _load_environment issues exactly one load_dotenv call; it names an
\* existing candidate before which no candidate of the documented order
\* exists, and it is the default discovery only when no candidate exists.
C1_FirstExistingLoaded ==
    dotenv_calls # <<>> =>
        LET order == DocumentedOrder(environ["TEST_ENV"])
            call == dotenv_calls[1]
        IN  /\ Len(dotenv_calls) = 1
            /\ call.dotenv_path.set =>
                   \E i \in 1..Len(order) :
                       /\ order[i] = call.dotenv_path.val
                       /\ order[i] \in files
                       /\ call.override
                       /\ \A j \in 1..(i - 1) : order[j] \notin files
            /\ ~call.dotenv_path.set =>
                   \A i \in 1..Len(order) : order[i] \notin files

\* TEST_ENV=staging, both staging files absent, env/test.env and later
\* candidates present: env/test.env is the one loaded.
C1_Witness ==
    /\ environ["TEST_ENV"] = Some("staging")
    /\ files = {"env/test.env", "test.env", ".env"}
    /\ dotenv_calls = <<DotenvOf("env/test.env")>>

(***************************************************************************)
(* C2                                                                      *)
(***************************************************************************)
\* s is tok in some mix of cases, between runs of whitespace.
IsVariantOf(s, tok) ==
    \E i \in 0..Len(s) :
        /\ i + Len(tok) <= Len(s)
        /\ \A k \in 1..i : s[k] \in {" ", "\t", "\n"}
        /\ \A k \in 1..Len(tok) : s[i + k] \in {tok[k], UpperChar(tok[k])}
        /\ \A k \in (i + Len(tok) + 1)..Len(s) : s[k] \in {" ", "\t", "\n"}

IsTrueString(s) == \E tok \in TrueTokens : IsVariantOf(s, tok)

IsFalseString(s) == \E tok \in FalseTokens : IsVariantOf(s, tok)

\* C2: a supported boolean string gives its boolean whatever the default,
\* without a warning; any other non-empty string gives the default with a
\* warning; an unset variable gives the default without a warning.
C2_BoolParsing ==
    parsed.set =>
        LET raw == environ["HEADLESS"]
            out == parsed.val
        IN  /\ ~raw.set => out = Result(default, FALSE)
            /\ raw.set /\ IsTrueString(raw.val) => out = Result(TRUE, FALSE)
            /\ raw.set /\ IsFalseString(raw.val) => out = Result(FALSE, FALSE)
            /\ (raw.set /\ raw.val # <<>> /\ ~IsTrueString(raw.val)
                    /\ ~IsFalseString(raw.val))
                   => out = Result(default, TRUE)

\* " YeS" followed by a tab, default False: parsed as True.
C2_Witness ==
    /\ environ["HEADLESS"] = Some(<<" ", "y", "E", "S", "\t">>)
    /\ default = FALSE
    /\ parsed = Some(Result(TRUE, FALSE))

(***************************************************************************)
(* C3                                                                      *)
(***************************************************************************)
RECURSIVE Pow10(_)
Pow10(n) == IF n = 0 THEN 1 ELSE 10 * Pow10(n - 1)

RECURSIVE SumTo(_, _)
SumTo(f, n) == IF n = 0 THEN 0 ELSE f[n] + SumTo(f, n - 1)

\* The number a run of decimal digits denotes, by place value.
PlaceValue(ds) ==
    SumTo([k \in 1..Len(ds) |-> DigitVal(ds[k]) * Pow10(Len(ds) - k)], Len(ds))

\* body is a run of digits in which single underscores may separate digits.
IsDigitRun(body) ==
    /\ body # <<>>
    /\ \A k \in 1..Len(body) : IsDigit(body[k]) \/ body[k] = "_"
    /\ IsDigit(body[1]) /\ IsDigit(body[Len(body)])
    /\ \A k \in 1..(Len(body) - 1) : ~(body[k] = "_" /\ body[k + 1] = "_")

\* s is numeric with sign sgn and digit run body: whitespace, an optional
\* sign, the digit run, whitespace.
NumericAs(s, sgn, body) ==
    /\ IsDigitRun(body)
    /\ \E i, j \in 0..Len(s) :
           /\ i + Len(sgn) + Len(body) + j = Len(s)
           /\ \A k \in 1..i : s[k] \in {" ", "\t", "\n"}
           /\ SubSeq(s, i + 1, i + Len(sgn)) = sgn
           /\ SubSeq(s, i + Len(sgn) + 1, Len(s) - j) = body
           /\ \A k \in (Len(s) - j + 1)..Len(s) : s[k] \in {" ", "\t", "\n"}

Bodies(s) == {SubSeq(s, a, b) : a \in 1..Len(s), b \in 1..Len(s)}

IsNumeric(s) ==
    \E sgn \in {<<>>, <<"+">>, <<"-">>}, body \in Bodies(s) :
        NumericAs(s, sgn, body)

\* C3: a numeric string gives exactly the integer it denotes, without a
\* warning; a non-numeric string gives the default with a warning.
C3_IntParsing ==
    parsed.set /\ environ["DEFAULT_TIMEOUT"].set =>
        LET s == environ["DEFAULT_TIMEOUT"].val
            out == parsed.val
        IN  /\ \A sgn \in {<<>>, <<"+">>, <<"-">>}, body \in Bodies(s) :
                   NumericAs(s, sgn, body) =>
                       out = Result((IF sgn = <<"-">> THEN 0 - 1 ELSE 1)
                                    * PlaceValue(SelectSeq(body, IsDigit)),
                                    FALSE)
            /\ ~IsNumeric(s) => out = Result(default, TRUE)

\* "1a" with the default 15000: the default comes back, with a warning.
C3_Witness ==
    /\ environ["DEFAULT_TIMEOUT"] = Some(<<"1", "a">>)
    /\ default = DEFAULT_TIMEOUT_default
    /\ parsed = Some(Result(DEFAULT_TIMEOUT_default, TRUE))

(***************************************************************************)
(* C4                                                                      *)
(***************************************************************************)
AirportOps == {"set_departure_airport", "set_arrival_airport"}

\* C4: an airport method called with a code outside the mapping raises the
\* validation error with no UI call issued and the page untouched; called
\* with a mapped code it raises no validation error.
C4_ValidationBeforeUi ==
    last.op \in AirportOps =>
        IF last.code \in {"RTM", "MAD"}
        THEN last.outcome # "ValueError"
        ELSE /\ last.outcome = "ValueError"
             /\ last.issued = <<>>
             /\ page_state = last.pre

\* set_departure_airport("ZZZ") right after a set_departure_airport that
\* returned (the clear button of the chosen airport shows).
C4_Witness ==
    /\ prev = [same |-> TRUE, returned |-> TRUE]
    /\ last.op = "set_departure_airport"
    /\ last.code = "ZZZ"
    /\ last.pre.dep_clear
    /\ last.outcome = "ValueError"

(***************************************************************************)
(* C6                                                                      *)
(***************************************************************************)
HomePageOps ==
    {"navigate", "accept_privacy_consent", "select_one_way_trip",
     "set_departure_airport", "set_arrival_airport", "set_departure_date",
     "uncheck_accommodation_option", "click_search_button"}

\* Some UI call of the latest call raised.
UiFailed == last.fault \in 1..Len(last.issued)

\* The UI call that raised is one on an element of the page: a visibility
\* or checked-state query, a click or a fill.
ElementFailed ==
    /\ UiFailed
    /\ last.issued[last.fault].call \in
           {"is_visible", "is_checked", "click", "fill"}

\* C6 as stated: in every HomePage operation a failing call on an element
\* is logged and not propagated.
C6_AllUiFailuresSoft ==
    last.op \in HomePageOps /\ ElementFailed =>
        last.outcome = "returned" /\ last.log # <<>>

\* C6 amended: a failing UI call is logged and not propagated exactly when
\* it is one of accept_privacy_consent's (called directly or by navigate);
\* any other failing UI call of a HomePage operation propagates as the
\* browser library's error.  The validation error comes only from the two
\* airport methods.
C6_OnlyConsentSoft ==
    last.op \in HomePageOps =>
        /\ UiFailed =>
               IF last.issued[last.fault].target = "privacy_popup_accept_button"
               THEN last.outcome = "returned" /\ last.log # <<>>
               ELSE last.outcome = "PlaywrightError"
        /\ ~UiFailed => last.outcome \in {"returned", "ValueError"}
        /\ last.outcome = "ValueError" => last.op \in AirportOps

\* The second click of select_one_way_trip times out and the error reaches
\* the caller.
C6_Witness ==
    /\ last.op = "select_one_way_trip"
    /\ last.fault = 2
    /\ last.issued[2] = Click("one_way_option_in_dropdown")
    /\ last.outcome = "PlaywrightError"

(***************************************************************************)
(* C7                                                                      *)
(***************************************************************************)
\* C7: accept_privacy_consent always returns; it returns True exactly when
\* it saw the button visible and the click completed, False otherwise; and
\* navigate fails only on goto or on the load-state wait.
C7_ConsentNeverPropagates ==
    /\ last.op = "accept_privacy_consent" =>
           /\ last.outcome = "returned"
           /\ last.ret \in {"True", "False"}
           /\ last.ret = "True" <=>
                  /\ last.pre.popup
                  /\ ~UiFailed
                  /\ last.issued = <<IsVisible("privacy_popup_accept_button"),
                                     Click("privacy_popup_accept_button")>>
           /\ (\E k \in 1..Len(last.issued) : last.issued[k].call = "click")
                  => last.pre.popup
    /\ last.op = "navigate" /\ last.outcome # "returned" =>
           /\ UiFailed
           /\ last.issued[last.fault].call \in {"goto", "wait_for_load_state"}

\* The click on the visible accept button times out: False comes back.
C7_Witness ==
    /\ last.op = "accept_privacy_consent"
    /\ last.pre.popup
    /\ last.fault = 2
    /\ last.outcome = "returned"
    /\ last.ret = "False"

(***************************************************************************)
(* C9                                                                      *)
(***************************************************************************)
\* C9: the step calls set_departure_date once, with value * 7 for week or
\* weeks and with value for day or days; for any other unit it raises
\* ValueError, calls no HomePage method and issues no UI call.
C9_UnitConversion ==
    last.op = "set_departure_time" =>
        IF last.unit \in {"week", "weeks"}
        THEN /\ last.po = <<[method |-> "set_departure_date",
                            days |-> last.value * 7]>>
             /\ last.outcome # "ValueError"
        ELSE IF last.unit \in {"day", "days"}
        THEN /\ last.po = <<[method |-> "set_departure_date",
                            days |-> last.value]>>
             /\ last.outcome # "ValueError"
        ELSE /\ last.outcome = "ValueError"
             /\ last.po = <<>>
             /\ last.issued = <<>>
             /\ page_state = last.pre

\* "2" week: set_departure_date(14) and its three clicks.
C9_Witness ==
    /\ last.op = "set_departure_time"
    /\ last.value = 2
    /\ last.unit = "week"
    /\ last.po = <<[method |-> "set_departure_date", days |-> 14]>>
    /\ last.outcome = "returned"
    /\ Len(last.issued) = 3
    /\ last.issued[2].days = 14

(***************************************************************************)
(* C10                                                                     *)
(***************************************************************************)
IconClicks(issued) ==
    Cardinality({k \in 1..Len(issued) : issued[k] = Click("checkbox_icon")})

\* C10: a call of uncheck_accommodation_option on an unchecked box issues
\* no click and leaves the page as it is; a call on a checked box that
\* returns has clicked the icon once and leaves the box unchecked; so the
\* box stays unchecked, without a click, through every later call.
C10_UncheckIdempotent ==
    [][last'.op = "uncheck_accommodation_option" =>
          /\ ~page_state.checked =>
                 /\ IconClicks(last'.issued) = 0
                 /\ page_state' = page_state
          /\ page_state.checked /\ last'.outcome = "returned" =>
                 /\ IconClicks(last'.issued) = 1
                 /\ ~page_state'.checked
          /\ IconClicks(last'.issued) <= 1]_vars

\* A second call, after one that returned: the box was already unchecked
\* and only is_checked is issued.
C10_Witness ==
    /\ prev = [same |-> TRUE, returned |-> TRUE]
    /\ last.op = "uncheck_accommodation_option"
    /\ last.outcome = "returned"
    /\ ~last.pre.checked
    /\ ~page_state.checked
    /\ last.issued = <<Ui("is_checked", "accommodation_checkbox", "", 0)>>

(***************************************************************************)
(* C5                                                                      *)
(***************************************************************************)
\* C5: the global is None whenever no test is running and once a test's
\* teardown phase has ended, whatever the outcomes; it never holds another
\* test's page; and it holds the running test's page from the page
\* fixture's setup until its teardown, so all through the call phase.
C5_ActivePageScoped ==
    /\ run.pc = "idle" => _test_failed_page = NoPage
    /\ report.when = "teardown" => _test_failed_page = NoPage
    /\ _test_failed_page \in {NoPage, run.test}
    /\ run.fixture_up => _test_failed_page = run.test
    /\ (run.uses_page
            /\ (run.pc = "call" \/ (run.pc = "report" /\ report.when = "call")))
           => _test_failed_page = run.test

\* The second test runs on its own page after a first test that used the
\* page fixture and failed in its call phase.
C5_Witness ==
    /\ before = [uses_page |-> TRUE, failed |-> "call"]
    /\ run.test = 2
    /\ run.pc = "call"
    /\ run.uses_page
    /\ _test_failed_page = 2

(***************************************************************************)
(* C8                                                                      *)
(***************************************************************************)
\* C8: the hook never raises; when page.screenshot or allure.attach raises
\* in it, the failure is printed, the report is the one the hook was
\* given, and the run goes on to the teardown phase.
C8_CaptureErrorSwallowed ==
    /\ ~hook.raised
    /\ hook.saw # NoReport => report = hook.saw
    /\ (hook.shot = "raises" \/ hook.attach = "raises") =>
           /\ hook.log = "Failed to capture screenshot"
           /\ report = [when |-> "call", outcome |-> "failed"]
           /\ run.pc = "teardown"
           /\ run.failed = "call"

\* A test's call phase failed and the screenshot of its page raised.
C8_Witness ==
    /\ report = [when |-> "call", outcome |-> "failed"]
    /\ hook.page = run.test
    /\ hook.page # NoPage
    /\ hook.shot = "raises"
    /\ hook.log = "Failed to capture screenshot"

=============================================================================
